---- MODULE Spec2Model ----
(***************************************************************************)
(* A model of three pieces of the safe-react client:                       *)
(*   - src/logic/contracts/safeContracts.ts: resolution of singleton       *)
(*     deployments by version and chain id, and the four module-level      *)
(*     contract instances;                                                 *)
(*   - the safe token selectors (grantedSelector,                          *)
(*     extendedSafeTokensSelector), built with reselect's createSelector;  *)
(*   - src/utils/googleTagManager.ts: getAnonymizedLocation and the page   *)
(*     tracking listener.                                                  *)
(* JavaScript's undefined is the string "undefined"; an undefined          *)
(* deployment is the record NoDeployment, whose every field is undefined,  *)
(* which is what the code's optional chaining (dep?.abi) reads from it.    *)
(***************************************************************************)
EXTENDS Integers, Sequences, FiniteSets, TLC

VARIABLES
  registry,            \* the static deployment tables of @gnosis.pm/safe-deployments
  chainId,             \* what _getChainId() returns
  proxyFactoryMaster,  \* safeContracts.ts:28
  safeMaster,          \* safeContracts.ts:29
  fallbackHandler,     \* safeContracts.ts:30
  multiSend,           \* safeContracts.ts:31
  promises,            \* the promises getMasterCopyAddressFromProxyAddress returned
  store,               \* the redux store state the selectors are applied to
  onboard,             \* what getOnboardState() returns (outside the store)
  grantedMemo,         \* grantedSelector's reselect cache
  extendedMemo,        \* extendedSafeTokensSelector's reselect cache
  location,            \* history.location
  dataLayer,           \* the last object handed to TagManager.dataLayer
  ret                  \* the last call and what it returned or threw

vars == <<registry, chainId, proxyFactoryMaster, safeMaster, fallbackHandler,
          multiSend, promises, store, onboard, grantedMemo, extendedMemo,
          location, dataLayer, ret>>

contractVars == <<proxyFactoryMaster, safeMaster, fallbackHandler, multiSend>>
selectorVars == <<store, onboard, grantedMemo, extendedMemo>>

Undefined == "undefined"

(***************************************************************************)
(* Chains, versions and the deployment registry                            *)
(***************************************************************************)

\* Chain ids are strings (ChainId); HARMONY is the one safeContracts.ts names.
HARMONY == "1666600000"
Chains == {"1", "100", HARMONY}

\* getChainById(networkId).l2
ChainIsL2(c) == c # "1"

\* Versions are <<major, minor, patch>>.
LATEST_SAFE_VERSION == <<1, 3, 0>>
SafeVersions == {<<0, 1, 0>>, <<1, 0, 0>>, <<1, 1, 1>>, <<1, 3, 0>>, <<1, 4, 1>>}
NoVersion == <<>>

\* semver order on versions
SemverLt(a, b) ==
  \/ a[1] < b[1]
  \/ a[1] = b[1] /\ a[2] < b[2]
  \/ a[1] = b[1] /\ a[2] = b[2] /\ a[3] < b[3]

\* semverSatisfies(version, range) for the two ranges the code uses
semverSatisfies(version, range) ==
  CASE range = "<1.0.0" -> SemverLt(version, <<1, 0, 0>>)
    [] range = ">=1.3.0" -> ~SemverLt(version, <<1, 3, 0>>)

\* The address a deployment has on chain c when it is deployed there.
DeployedAt(c) ==
  CASE c = "1" -> "0xDeployedOn1"
    [] c = "100" -> "0xDeployedOn100"
    [] c = HARMONY -> "0xDeployedOnHarmony"

\* A deployment descriptor: version, abi and per-network addresses.
Deployment(version, abi, networks) ==
  [version |-> version, abi |-> abi,
   networkAddresses |-> [c \in Chains |-> IF c \in networks THEN DeployedAt(c) ELSE Undefined]]

NoDeployment ==
  [version |-> NoVersion, abi |-> Undefined, networkAddresses |-> [c \in Chains |-> Undefined]]

\* the library's lookup: the first deployment of the table that matches the
\* given version (when one is given) and is deployed on the given network
\* (when one is given)
DeploymentMatches(d, version, network) ==
  /\ version # NoVersion => d.version = version
  /\ network # Undefined => d.networkAddresses[network] \notin {Undefined, ""}

findDeployment(table, version, network) ==
  LET hits == {i \in 1..Len(table) : DeploymentMatches(table[i], version, network)}
  IN IF hits = {} THEN NoDeployment
     ELSE table[CHOOSE i \in hits : \A j \in hits : i <= j]

\* JavaScript's a || b on deployments: an object is truthy, undefined is not
OrElse(a, b) == IF a # NoDeployment THEN a ELSE b

(***************************************************************************)
(* safeContracts.ts                                                        *)
(***************************************************************************)

\* One lookup made by getSafeContractDeployment: which table, which filter.
Lookup(table, version, network) == [table |-> table, version |-> version, network |-> network]

getSafeContractDeployment_NoLegacyGuard(reg, networkId, safeVersion) ==
  LET useL2 == ChainIsL2(networkId) /\ semverSatisfies(safeVersion, ">=1.3.0")
      name == IF useL2 THEN "safeL2" ELSE "safeL1"
      t1 == findDeployment(reg[name], safeVersion, networkId)
      t2 == findDeployment(reg[name], safeVersion, Undefined)
      t3 == findDeployment(reg[name], <<1, 0, 0>>, Undefined)
  IN [deployment |-> OrElse(t1, OrElse(t2, t3)),
      lookups |-> <<Lookup(name, safeVersion, networkId)>>
                  \o (IF t1 = NoDeployment THEN <<Lookup(name, safeVersion, Undefined)>> ELSE <<>>)
                  \o (IF t1 = NoDeployment /\ t2 = NoDeployment
                      THEN <<Lookup(name, <<1, 0, 0>>, Undefined)>> ELSE <<>>)]

getSafeContractDeployment_L2ForAnyVersion(reg, networkId, safeVersion) ==
  LET useOldest == semverSatisfies(safeVersion, "<1.0.0")
      name == IF ChainIsL2(networkId) THEN "safeL2" ELSE "safeL1"
      t1 == findDeployment(reg[name], safeVersion, networkId)
      t2 == findDeployment(reg[name], safeVersion, Undefined)
      t3 == IF useOldest THEN findDeployment(reg[name], <<1, 0, 0>>, Undefined)
            ELSE NoDeployment
  IN [deployment |-> OrElse(t1, OrElse(t2, t3)),
      lookups |-> <<Lookup(name, safeVersion, networkId)>>
                  \o (IF t1 = NoDeployment THEN <<Lookup(name, safeVersion, Undefined)>> ELSE <<>>)
                  \o (IF t1 = NoDeployment /\ t2 = NoDeployment /\ useOldest
                      THEN <<Lookup(name, <<1, 0, 0>>, Undefined)>> ELSE <<>>)]

\* getSafeContractDeployment({ safeVersion }) with _getChainId() = networkId:
\* the deployment it returns and the lookups it made, in order (|| evaluates
\* its right side only when the left side is undefined).
getSafeContractDeployment(reg, networkId, safeVersion) ==
  LET useOldestContractVersion == semverSatisfies(safeVersion, "<1.0.0")
      useL2ContractVersion == ChainIsL2(networkId) /\ semverSatisfies(safeVersion, ">=1.3.0")
      getDeployment == IF useL2ContractVersion THEN "safeL2" ELSE "safeL1"
      t1 == findDeployment(reg[getDeployment], safeVersion, networkId)
      t2 == findDeployment(reg[getDeployment], safeVersion, Undefined)
      t3 == IF useOldestContractVersion
            THEN findDeployment(reg[getDeployment], <<1, 0, 0>>, Undefined)
            ELSE NoDeployment
  IN [deployment |-> OrElse(t1, OrElse(t2, t3)),
      lookups |-> <<Lookup(getDeployment, safeVersion, networkId)>>
                  \o (IF t1 = NoDeployment
                      THEN <<Lookup(getDeployment, safeVersion, Undefined)>> ELSE <<>>)
                  \o (IF t1 = NoDeployment /\ t2 = NoDeployment /\ useOldestContractVersion
                      THEN <<Lookup(getDeployment, <<1, 0, 0>>, Undefined)>> ELSE <<>>)]

\* The literal addresses the builders fall back to (safeContracts.ts:70, 94, 118, 141),
\* the SignMessageLib override (161, 183) and the master-copy fallback (201).
GNOSIS_SAFE_FALLBACK == "0x4f9b1def3a0f6747bf8c870a27d3decdf029100e"
PROXY_FACTORY_FALLBACK == "0x4f9b1def3a0f6747bf8c870a27d3decdf029100e"
FALLBACK_HANDLER_FALLBACK == "0xC5d654bcE1220241FCe1f0F1D6b9E04f75175452"
MULTI_SEND_FALLBACK == "0xDEff67e9A02b4Ce60ff62F3CB5FFB41d48856285"
SIGN_MESSAGE_LIB_HARMONY == "0x1b02dA8Cb0d097eB8D57A175b88c7D8b47997506"
MASTER_COPY_FALLBACK == "0x3736aC8400751bf07c6A2E4db3F4f3D9D422abB2"

\* JavaScript's !contractAddress
Falsy(address) == address \in {Undefined, ""}

\* A contract instance: its options.address, its abi, and (for the model
\* only) the chain id the builder was given.
Instance(abi, address, chain) == [address |-> address, abi |-> abi, resolvedFor |-> chain]
UnsetInstance == Instance(Undefined, Undefined, Undefined)

\* new web3.eth.Contract(abi, address): web3 1.x throws "You must provide
\* the json interface of the contract when instantiating a contract object"
\* when abi is not an array, which is what dep?.abi is for an undefined dep.
Contract(abi, address, chain) ==
  IF abi = Undefined
  THEN [threw |-> TRUE, instance |-> UnsetInstance]
  ELSE [threw |-> FALSE, instance |-> Instance(abi, address, chain)]

getGnosisSafeContractInstance(reg, current, chain) ==
  LET safeSingletonDeployment == getSafeContractDeployment(reg, current, LATEST_SAFE_VERSION).deployment
      found == safeSingletonDeployment.networkAddresses[chain]
      contractAddress == IF Falsy(found) THEN GNOSIS_SAFE_FALLBACK ELSE found
  IN Contract(safeSingletonDeployment.abi, contractAddress, chain)

getProxyFactoryContractInstance(reg, chain) ==
  LET proxyFactoryDeployment ==
        OrElse(findDeployment(reg["proxyFactory"], LATEST_SAFE_VERSION, chain),
               findDeployment(reg["proxyFactory"], LATEST_SAFE_VERSION, Undefined))
      found == proxyFactoryDeployment.networkAddresses[chain]
      contractAddress == IF Falsy(found) THEN PROXY_FACTORY_FALLBACK ELSE found
  IN Contract(proxyFactoryDeployment.abi, contractAddress, chain)

getFallbackHandlerContractInstance(reg, chain) ==
  LET fallbackHandlerDeployment ==
        OrElse(findDeployment(reg["fallbackHandler"], LATEST_SAFE_VERSION, chain),
               findDeployment(reg["fallbackHandler"], LATEST_SAFE_VERSION, Undefined))
      found == fallbackHandlerDeployment.networkAddresses[chain]
      contractAddress == IF Falsy(found) THEN FALLBACK_HANDLER_FALLBACK ELSE found
  IN Contract(fallbackHandlerDeployment.abi, contractAddress, chain)

getMultiSendContractInstance(reg, chain) ==
  LET multiSendDeployment ==
        OrElse(findDeployment(reg["multiSend"], NoVersion, chain),
               findDeployment(reg["multiSend"], NoVersion, Undefined))
      found == multiSendDeployment.networkAddresses[chain]
      contractAddress == IF Falsy(found) THEN MULTI_SEND_FALLBACK ELSE found
  IN Contract(multiSendDeployment.abi, contractAddress, chain)

\* What a call returns: a value, or an exception.
Returned(value) == [threw |-> FALSE, value |-> value]
Threw(error) == [threw |-> TRUE, value |-> error]

getSignMessageLibAddress_NoOverride(reg, chain) ==
  LET signMessageLibDeployment ==
        OrElse(findDeployment(reg["signMessageLib"], NoVersion, chain),
               findDeployment(reg["signMessageLib"], NoVersion, Undefined))
      contractAddress == signMessageLibDeployment.networkAddresses[chain]
  IN IF Falsy(contractAddress) THEN Threw("Error") ELSE Returned(contractAddress)

getSignMessageLibAddress(reg, chain) ==
  LET signMessageLibDeployment ==
        OrElse(findDeployment(reg["signMessageLib"], NoVersion, chain),
               findDeployment(reg["signMessageLib"], NoVersion, Undefined))
      found == signMessageLibDeployment.networkAddresses[chain]
      contractAddress == IF chain = HARMONY THEN SIGN_MESSAGE_LIB_HARMONY ELSE found
  IN IF Falsy(contractAddress) THEN Threw("Error") ELSE Returned(contractAddress)

getSignMessageLibContractInstance(reg, chain) ==
  LET signMessageLibDeployment ==
        OrElse(findDeployment(reg["signMessageLib"], NoVersion, chain),
               findDeployment(reg["signMessageLib"], NoVersion, Undefined))
      found == signMessageLibDeployment.networkAddresses[chain]
      contractAddress == IF chain = HARMONY THEN SIGN_MESSAGE_LIB_HARMONY ELSE found
      built == Contract(signMessageLibDeployment.abi, contractAddress, chain)
  IN IF Falsy(contractAddress) THEN Threw("Error")
     ELSE IF built.threw THEN Threw("ContractMissingABIError")
     ELSE Returned(built.instance)

\* instantiateSafeContracts(): the four builders run in the order of the
\* code, each assigned as it returns; an exception ends the call and leaves
\* the later variables as they were. ran is the builders' results in order,
\* up to the first that threw.
instantiateSafeContracts(reg, current) ==
  LET pf == getProxyFactoryContractInstance(reg, current)
      sm == getGnosisSafeContractInstance(reg, current, current)
      fh == getFallbackHandlerContractInstance(reg, current)
      ms == getMultiSendContractInstance(reg, current)
      okPf == ~pf.threw
      okSm == okPf /\ ~sm.threw
      okFh == okSm /\ ~fh.threw
      okMs == okFh /\ ~ms.threw
  IN [proxyFactoryMaster |-> IF okPf THEN pf.instance ELSE proxyFactoryMaster,
      safeMaster |-> IF okSm THEN sm.instance ELSE safeMaster,
      fallbackHandler |-> IF okFh THEN fh.instance ELSE fallbackHandler,
      multiSend |-> IF okMs THEN ms.instance ELSE multiSend,
      threw |-> ~okMs,
      ran |-> <<pf>> \o (IF okPf THEN <<sm>> ELSE <<>>)
                     \o (IF okSm THEN <<fh>> ELSE <<>>)
                     \o (IF okFh THEN <<ms>> ELSE <<>>)]

\* instance.options.address, a TypeError when the variable is still undefined
OptionsAddress(instance) ==
  IF instance = UnsetInstance THEN Threw("TypeError") ELSE Returned(instance.address)

\* getSafeDeploymentTransaction: the createProxyWithNonce call it builds
getSafeDeploymentTransaction ==
  IF UnsetInstance \in {safeMaster, fallbackHandler, proxyFactoryMaster}
  THEN Threw("TypeError")
  ELSE Returned([to |-> proxyFactoryMaster.address,
                 singleton |-> safeMaster.address,
                 fallbackHandler |-> fallbackHandler.address])

\* getSafeInfo's outcomes: it resolves with a SafeInfo whose implementation
\* may be missing or hold an empty value, or it rejects with an error value.
\* Of the error values only CodedException has a log() method.
ProxyAddresses == {"0xProxyA", "0xProxyB"}
ErrorValues == {"CodedException", "Error", "undefined"}
HasLogMethod(e) == e = "CodedException"
SafeInfoOutcomes ==
  [kind : {"fulfilled"}, hasImplementation : {TRUE}, value : {"0xMasterCopy", "", Undefined}]
  \cup {[kind |-> "fulfilled", hasImplementation |-> FALSE, value |-> Undefined]}
  \cup [kind : {"rejected"}, hasImplementation : {FALSE}, value : ErrorValues]

NoPromise == [state |-> "none", proxyAddress |-> Undefined, value |-> Undefined]
Pending(proxyAddress) == [state |-> "pending", proxyAddress |-> proxyAddress, value |-> Undefined]
Resolved(proxyAddress, value) == [state |-> "resolved", proxyAddress |-> proxyAddress, value |-> value]
Rejected(proxyAddress, reason) == [state |-> "rejected", proxyAddress |-> proxyAddress, value |-> reason]

\* the catch block: e.log(), then the function goes on to return
\* masterCopyAddress; e.log() itself throws a TypeError when e has no log
CatchAndLog(proxyAddress, e, masterCopyAddress) ==
  IF HasLogMethod(e) THEN Resolved(proxyAddress, masterCopyAddress)
  ELSE Rejected(proxyAddress, "TypeError")

\* getMasterCopyAddressFromProxyAddress after getSafeInfo settled with outcome
getMasterCopyAddressFromProxyAddress(proxyAddress, outcome) ==
  IF outcome.kind = "rejected" THEN CatchAndLog(proxyAddress, outcome.value, Undefined)
  ELSE IF ~outcome.hasImplementation THEN CatchAndLog(proxyAddress, "TypeError", Undefined)
  ELSE IF Falsy(outcome.value) THEN Resolved(proxyAddress, MASTER_COPY_FALLBACK)
  ELSE Resolved(proxyAddress, outcome.value)

(***************************************************************************)
(* Actions on the contract module                                          *)
(***************************************************************************)

Call(op, arg, result) == [op |-> op, arg |-> arg, threw |-> result.threw, value |-> result.value]
NoCall == [op |-> "none", arg |-> Undefined, threw |-> FALSE, value |-> Undefined]

\* the user or the app switches the current chain
SwitchChain(c) ==
  /\ c # chainId
  /\ chainId' = c
  /\ ret' = Call("switchChain", c, Returned(Undefined))
  /\ UNCHANGED <<registry, contractVars, promises, selectorVars, location, dataLayer>>

\* a direct call of getSafeContractDeployment
GetSafeContractDeployment(safeVersion) ==
  /\ ret' = [op |-> "getSafeContractDeployment", arg |-> safeVersion, threw |-> FALSE,
             value |-> getSafeContractDeployment(registry, chainId, safeVersion)]
  /\ UNCHANGED <<registry, chainId, contractVars, promises, selectorVars, location, dataLayer>>

\* getGnosisSafeInstanceAt(safeAddress, safeVersion)
GetGnosisSafeInstanceAt(safeAddress, safeVersion) ==
  LET dep == getSafeContractDeployment(registry, chainId, safeVersion).deployment
      built == Contract(dep.abi, safeAddress, chainId)
  IN /\ ret' = Call("getGnosisSafeInstanceAt", <<safeAddress, safeVersion>>,
                    IF built.threw THEN Threw("ContractMissingABIError")
                    ELSE Returned(built.instance))
     /\ UNCHANGED <<registry, chainId, contractVars, promises, selectorVars, location, dataLayer>>

InstantiateSafeContracts ==
  LET r == instantiateSafeContracts(registry, chainId)
  IN /\ proxyFactoryMaster' = r.proxyFactoryMaster
     /\ safeMaster' = r.safeMaster
     /\ fallbackHandler' = r.fallbackHandler
     /\ multiSend' = r.multiSend
     /\ ret' = [op |-> "instantiateSafeContracts", arg |-> chainId, threw |-> r.threw,
                value |-> r.ran]
     /\ UNCHANGED <<registry, chainId, promises, selectorVars, location, dataLayer>>

\* getSafeMasterContract(): instantiateSafeContracts(), then return safeMaster
GetSafeMasterContract ==
  LET r == instantiateSafeContracts(registry, chainId)
  IN /\ proxyFactoryMaster' = r.proxyFactoryMaster
     /\ safeMaster' = r.safeMaster
     /\ fallbackHandler' = r.fallbackHandler
     /\ multiSend' = r.multiSend
     /\ ret' = Call("getSafeMasterContract", chainId,
                    IF r.threw THEN Threw("ContractMissingABIError") ELSE Returned(r.safeMaster))
     /\ UNCHANGED <<registry, chainId, promises, selectorVars, location, dataLayer>>

Getter(op, result) ==
  /\ ret' = Call(op, Undefined, result)
  /\ UNCHANGED <<registry, chainId, contractVars, promises, selectorVars, location, dataLayer>>

GetSafeMasterContractAddress == Getter("getSafeMasterContractAddress", OptionsAddress(safeMaster))
GetFallbackHandlerContractAddress ==
  Getter("getFallbackHandlerContractAddress", OptionsAddress(fallbackHandler))
GetMultisendContract == Getter("getMultisendContract", Returned(multiSend))
GetMultisendContractAddress == Getter("getMultisendContractAddress", OptionsAddress(multiSend))
GetSafeDeploymentTransaction == Getter("getSafeDeploymentTransaction", getSafeDeploymentTransaction)

GetSignMessageLibAddress(chain) ==
  /\ ret' = Call("getSignMessageLibAddress", chain, getSignMessageLibAddress(registry, chain))
  /\ UNCHANGED <<registry, chainId, contractVars, promises, selectorVars, location, dataLayer>>

GetSignMessageLibContractInstance(chain) ==
  /\ ret' = Call("getSignMessageLibContractInstance", chain,
                 getSignMessageLibContractInstance(registry, chain))
  /\ UNCHANGED <<registry, chainId, contractVars, promises, selectorVars, location, dataLayer>>

\* getMasterCopyAddressFromProxyAddress(proxyAddress) up to its await
CallGetMasterCopyAddress(i, proxyAddress) ==
  /\ promises[i] = NoPromise
  /\ promises' = [promises EXCEPT ![i] = Pending(proxyAddress)]
  /\ UNCHANGED <<registry, chainId, contractVars, selectorVars, location, dataLayer, ret>>

\* getSafeInfo settles and the rest of the function runs
SettleGetSafeInfo(i, outcome) ==
  /\ promises[i].state = "pending"
  /\ promises' = [promises EXCEPT
                    ![i] = getMasterCopyAddressFromProxyAddress(promises[i].proxyAddress, outcome)]
  /\ UNCHANGED <<registry, chainId, contractVars, selectorVars, location, dataLayer, ret>>

(***************************************************************************)
(* The safe token selectors                                                *)
(***************************************************************************)

\* Addresses are compared by sameAddress without regard to case; the tokens
\* list is an Immutable Map read by its exact key.
NATIVE_ADDRESS == "0xeeee"
ToLowerCase(a) ==
  CASE a = "0xEEEE" -> "0xeeee"
    [] a = "0xA1" -> "0xa1"
    [] OTHER -> a

sameAddress(a, b) ==
  IF Falsy(a) \/ Falsy(b) THEN FALSE ELSE ToLowerCase(a) = ToLowerCase(b)

NoSafe == [exists |-> FALSE, owners |-> {}, ethBalance |-> Undefined]
Safe(owners, ethBalance) == [exists |-> TRUE, owners |-> owners, ethBalance |-> ethBalance]

isUserAnOwner(safe, userAccount) ==
  /\ safe.exists
  /\ ~Falsy(userAccount)
  /\ \E owner \in safe.owners : sameAddress(owner, userAccount)

\* A balance entry of the safe, and a token record.
Balance(tokenAddress, tokenBalance) == [tokenAddress |-> tokenAddress, tokenBalance |-> tokenBalance]
Token(address, name, balance) == [address |-> address, name |-> name, balance |-> balance]
NoToken == Token(Undefined, Undefined, Undefined)

\* getEthAsToken(ethBalance): the native currency as a token
getEthAsToken(ethBalance) == Token(NATIVE_ADDRESS, "native", Balance(Undefined, ethBalance))

\* safeEthAsTokenSelector
safeEthAsTokenSelector(state) ==
  IF ~state.safe.exists THEN NoToken ELSE getEthAsToken(state.safe.ethBalance)

\* tokensList.get(tokenAddress)
TokensGet(tokensList, tokenAddress) ==
  IF tokenAddress \in DOMAIN tokensList THEN tokensList[tokenAddress] ELSE NoToken

\* The balances of the current safe: an array of entries, or a value that
\* is no array (an object map kept from before v3.5.0, undefined).
ArrayOf(entries) == [kind |-> "array", entries |-> entries]
NonArrayBalances == {[kind |-> k, entries |-> <<>>] : k \in {"object", Undefined}}

\* Array.isArray(safeBalances)
IsArray(safeBalances) == safeBalances.kind = "array"

\* the forEach of the result function, on the entries from index i on
RECURSIVE ExtendTokens(_, _, _, _)
ExtendTokens(safeBalances, tokensList, ethAsToken, i) ==
  IF i > Len(safeBalances.entries) THEN <<>>
  ELSE LET safeBalance == safeBalances.entries[i]
           tokenAddress == safeBalance.tokenAddress
           baseToken == IF sameAddress(tokenAddress, ethAsToken.address) THEN ethAsToken
                        ELSE TokensGet(tokensList, tokenAddress)
           rest == ExtendTokens(safeBalances, tokensList, ethAsToken, i + 1)
       IN IF Falsy(tokenAddress) THEN rest
          ELSE IF baseToken = NoToken THEN rest
          ELSE <<[baseToken EXCEPT !.balance = safeBalance]>> \o rest

extendedSafeTokens_Silent(safeBalances, tokensList, ethAsToken) ==
  IF ~IsArray(safeBalances) THEN [tokens |-> <<>>, sent |-> 0]
  ELSE [tokens |-> ExtendTokens(safeBalances, tokensList, ethAsToken, 1), sent |-> 0]

RECURSIVE ExtendTokens_EthOnly(_, _, _, _)
ExtendTokens_EthOnly(safeBalances, tokensList, ethAsToken, i) ==
  IF i > Len(safeBalances.entries) THEN <<>>
  ELSE LET safeBalance == safeBalances.entries[i]
           rest == ExtendTokens_EthOnly(safeBalances, tokensList, ethAsToken, i + 1)
       IN IF sameAddress(safeBalance.tokenAddress, ethAsToken.address)
          THEN <<[ethAsToken EXCEPT !.balance = safeBalance]>> \o rest
          ELSE rest

extendedSafeTokens_EthOnly(safeBalances, tokensList, ethAsToken) ==
  IF ~IsArray(safeBalances) THEN [tokens |-> <<>>, sent |-> 1]
  ELSE [tokens |-> ExtendTokens_EthOnly(safeBalances, tokensList, ethAsToken, 1), sent |-> 0]

\* extendedSafeTokensSelector's result function: the list it returns and
\* the number of Sentry.captureMessage calls it makes
extendedSafeTokens(safeBalances, tokensList, ethAsToken) ==
  IF ~IsArray(safeBalances) THEN [tokens |-> <<>>, sent |-> 1]
  ELSE [tokens |-> ExtendTokens(safeBalances, tokensList, ethAsToken, 1), sent |-> 0]

\* grantedSelector's result function
granted(safe, isWrongChain, account) == isUserAnOwner(safe, account.address) /\ ~isWrongChain

(***************************************************************************)
(* reselect's createSelector keeps one entry: the selector returns its     *)
(* last result when it is called with the very state object of its last    *)
(* call, and otherwise evaluates the input selectors and returns the last  *)
(* result when each input is the value (===) of the last call. A store     *)
(* change makes a new state object and a new object for the slice it       *)
(* changes; the memo records which objects are still those of the last     *)
(* call.                                                                   *)
(***************************************************************************)

EmptyGrantedMemo ==
  [has |-> FALSE, result |-> FALSE, sameState |-> FALSE, sameSafe |-> FALSE,
   lastWrongChain |-> FALSE, sameOnboard |-> FALSE]

EmptyExtendedMemo ==
  [has |-> FALSE, result |-> <<>>, sameState |-> FALSE, sameBalances |-> FALSE,
   sameTokens |-> FALSE, sameSafe |-> FALSE]

\* a store change of one slice, seen from the two caches
StoreChanged(slice) ==
  /\ grantedMemo' = [grantedMemo EXCEPT !.sameState = FALSE,
                                        !.sameSafe = @ /\ slice # "safe"]
  /\ extendedMemo' = [extendedMemo EXCEPT !.sameState = FALSE,
                                          !.sameBalances = @ /\ slice # "balances",
                                          !.sameTokens = @ /\ slice # "tokens",
                                          !.sameSafe = @ /\ slice # "safe"]

SetSafe(safe) ==
  /\ safe # store.safe
  /\ store' = [store EXCEPT !.safe = safe]
  /\ StoreChanged("safe")
  /\ ret' = Call("dispatch", "safe", Returned(Undefined))
  /\ UNCHANGED <<registry, chainId, contractVars, promises, onboard, location, dataLayer>>

\* a new array or object each time; undefined is the one value undefined
SetBalances(balances) ==
  /\ ~(balances.kind = Undefined /\ store.balances.kind = Undefined)
  /\ store' = [store EXCEPT !.balances = balances]
  /\ StoreChanged("balances")
  /\ ret' = Call("dispatch", "balances", Returned(Undefined))
  /\ UNCHANGED <<registry, chainId, contractVars, promises, onboard, location, dataLayer>>

SetTokens(tokens) ==
  /\ tokens # store.tokens
  /\ store' = [store EXCEPT !.tokens = tokens]
  /\ StoreChanged("tokens")
  /\ ret' = Call("dispatch", "tokens", Returned(Undefined))
  /\ UNCHANGED <<registry, chainId, contractVars, promises, onboard, location, dataLayer>>

SetWrongChain(isWrongChain) ==
  /\ isWrongChain # store.wrongChain
  /\ store' = [store EXCEPT !.wrongChain = isWrongChain]
  /\ StoreChanged("wrongChain")
  /\ ret' = Call("dispatch", "wrongChain", Returned(Undefined))
  /\ UNCHANGED <<registry, chainId, contractVars, promises, onboard, location, dataLayer>>

\* the wallet's account changes: onboard's state, not the store's
WalletChange(address) ==
  /\ address # onboard.account.address
  /\ onboard' = [account |-> [address |-> address]]
  /\ grantedMemo' = [grantedMemo EXCEPT !.sameOnboard = FALSE]
  /\ ret' = Call("walletChange", address, Returned(Undefined))
  /\ UNCHANGED <<registry, chainId, contractVars, promises, store, extendedMemo, location, dataLayer>>

\* grantedSelector(state)
CallGrantedSelector ==
  LET m == grantedMemo
      sameArguments == m.has /\ m.sameState
      sameInputs == m.has /\ m.sameSafe /\ m.lastWrongChain = store.wrongChain /\ m.sameOnboard
      result == IF sameArguments \/ sameInputs THEN m.result
                ELSE granted(store.safe, store.wrongChain, onboard.account)
  IN /\ grantedMemo' = IF sameArguments THEN m
                       ELSE [has |-> TRUE, result |-> result, sameState |-> TRUE,
                             sameSafe |-> TRUE, lastWrongChain |-> store.wrongChain,
                             sameOnboard |-> TRUE]
     /\ ret' = Call("grantedSelector", Undefined, Returned(result))
     /\ UNCHANGED <<registry, chainId, contractVars, promises, store, onboard, extendedMemo,
                    location, dataLayer>>

\* extendedSafeTokensSelector(state)
CallExtendedSafeTokensSelector ==
  LET m == extendedMemo
      sameArguments == m.has /\ m.sameState
      sameInputs == m.has /\ m.sameBalances /\ m.sameTokens /\ m.sameSafe
      cached == sameArguments \/ sameInputs
      computed == extendedSafeTokens(store.balances, store.tokens, safeEthAsTokenSelector(store))
  IN /\ extendedMemo' = IF sameArguments THEN m
                        ELSE [has |-> TRUE, result |-> IF cached THEN m.result ELSE computed.tokens,
                              sameState |-> TRUE, sameBalances |-> TRUE, sameTokens |-> TRUE,
                              sameSafe |-> TRUE]
     /\ ret' = [op |-> "extendedSafeTokensSelector", arg |-> Undefined, threw |-> FALSE,
                value |-> IF cached THEN m.result ELSE computed.tokens,
                sent |-> IF cached THEN 0 ELSE computed.sent,
                cached |-> cached]
     /\ UNCHANGED <<registry, chainId, contractVars, promises, store, onboard, grantedMemo,
                    location, dataLayer>>

(***************************************************************************)
(* googleTagManager.ts                                                     *)
(* A string is a sequence of tokens: "/" and path segments, none of which  *)
(* is part of another. A pathname is "/" or "/" seg "/" seg ...            *)
(***************************************************************************)

ANON_SAFE_ADDRESS == "SAFE_ADDRESS"
ANON_TX_ID == "TRANSACTION_ID"

\* Segments that have the shape of a prefixed safe address, and the others.
SafeAddressSegments == {"eth:0xSafeA", "eth:0xSafeB"}
OtherSegments == {"transactions", "multisig_tx1"}
PathSegments == SafeAddressSegments \cup OtherSegments

NumSegments(pathname) == Len(pathname) \div 2
Segment(pathname, k) == pathname[2 * k]

\* matchPath(pathname, { path: ADDRESSED_ROUTE }): the route is
\* /:prefixedSafeAddress(<address pattern>), matched as a prefix (exact is
\* not set); the result is the parameter, or Undefined for no match
matchAddressedRoute(pathname) ==
  IF NumSegments(pathname) >= 1 /\ Segment(pathname, 1) \in SafeAddressSegments
  THEN Segment(pathname, 1) ELSE Undefined

\* matchPath(pathname, { path: SAFE_ROUTES.TRANSACTIONS_SINGULAR }): the
\* route is ADDRESSED_ROUTE/transactions/:safeTxHash, matched as a prefix
matchTransactionsSingular(pathname) ==
  IF /\ NumSegments(pathname) >= 3
     /\ Segment(pathname, 1) \in SafeAddressSegments
     /\ Segment(pathname, 2) = "transactions"
  THEN Segment(pathname, 3) ELSE Undefined

\* String.prototype.replace(pattern, replacement) with a string pattern:
\* the first occurrence of pattern is replaced, the others are kept
Occurrences(str, pattern) ==
  {i \in 1..(Len(str) - Len(pattern) + 1) : SubSeq(str, i, i + Len(pattern) - 1) = pattern}

Replace(str, pattern, replacement) ==
  LET at == Occurrences(str, pattern)
  IN IF at = {} THEN str
     ELSE LET i == CHOOSE k \in at : \A j \in at : k <= j
          IN SubSeq(str, 1, i - 1) \o replacement \o SubSeq(str, i + Len(pattern), Len(str))

\* a string of one token, the empty string having none
Str(x) == IF x = "" THEN <<>> ELSE <<x>>

getAnonymizedLocation(loc) ==
  LET safeAddressMatch == matchAddressedRoute(loc.pathname)
      anon1 == IF safeAddressMatch # Undefined
               THEN Replace(loc.pathname, <<safeAddressMatch>>, <<ANON_SAFE_ADDRESS>>)
               ELSE loc.pathname
      txIdMatch == matchTransactionsSingular(loc.pathname)
      anonPathname == IF txIdMatch # Undefined
                      THEN Replace(anon1, <<txIdMatch>>, <<ANON_TX_ID>>)
                      ELSE anon1
  IN anonPathname \o Str(loc.search) \o Str(loc.hash)

\* the pathnames of exactly n segments, without the leading "/" of the root
RECURSIVE PathsOfLength(_)
PathsOfLength(n) ==
  IF n = 0 THEN {<<>>}
  ELSE {p \o <<"/", seg>> : p \in PathsOfLength(n - 1), seg \in PathSegments}

\* the pathnames of at most n segments
Pathnames(n) == {<<"/">>} \cup UNION {PathsOfLength(k) : k \in 1..n}

MaxSegments == 3
Locations ==
  {[pathname |-> p, search |-> t[1], hash |-> t[2]] :
     p \in Pathnames(MaxSegments), t \in {<<"", "">>, <<"?tab=1", "#top">>}}

\* usePageTracking's history listener: a navigation to loc
HistoryListen(loc) ==
  /\ loc # location
  /\ location' = loc
  /\ dataLayer' = [event |-> "pageview", chainId |-> chainId, page |-> getAnonymizedLocation(loc)]
  /\ ret' = Call("getAnonymizedLocation", loc, Returned(getAnonymizedLocation(loc)))
  /\ UNCHANGED <<registry, chainId, contractVars, promises, selectorVars>>

(***************************************************************************)
(* Initial states and specifications                                       *)
(***************************************************************************)

MaxTableLen == 2
MaxCalls == 2
MaxBalances == 2

\* the sequences over pool of at most n elements
RECURSIVE SeqsUpTo(_, _)
SeqsUpTo(pool, n) ==
  IF n = 0 THEN {<<>>}
  ELSE LET shorter == SeqsUpTo(pool, n - 1)
       IN shorter \cup {t \o <<e>> : t \in shorter, e \in pool}

\* The registry is the library's static data: every table holds at least
\* one deployment, so a lookup without a version finds one; a table need not
\* hold the version asked for, nor an address for the chain asked for.
SingletonTables(abi, versions) ==
  SeqsUpTo({Deployment(v, abi, nets) : v \in versions, nets \in {{"1"}, {"100"}}},
           MaxTableLen) \ {<<>>}

\* a deployment whose address on every chain is the empty string
EmptyAddressDeployment(version, abi) ==
  [version |-> version, abi |-> abi, networkAddresses |-> [c \in Chains |-> ""]]

FullTable(abi) == <<Deployment(LATEST_SAFE_VERSION, abi, Chains)>>

\* Tables of one entry: of the latest version and deployed on some chains,
\* or of an older version only.
ContractTables(abi) ==
  {<<Deployment(<<1, 1, 1>>, abi, Chains)>>,
   <<Deployment(LATEST_SAFE_VERSION, abi, {"1"})>>,
   <<Deployment(LATEST_SAFE_VERSION, abi, {"100", HARMONY})>>}

DefaultRegistry ==
  [safeL1 |-> FullTable("GnosisSafe"), safeL2 |-> FullTable("GnosisSafeL2"),
   proxyFactory |-> FullTable("ProxyFactory"),
   fallbackHandler |-> FullTable("CompatibilityFallbackHandler"),
   multiSend |-> FullTable("MultiSendCallOnly"),
   signMessageLib |-> FullTable("SignMessageLib")]

DeploymentRegistries ==
  {[DefaultRegistry EXCEPT !.safeL1 = l1, !.safeL2 = l2] :
     l1 \in SingletonTables("GnosisSafe", {<<1, 0, 0>>, <<1, 3, 0>>}),
     l2 \in SingletonTables("GnosisSafeL2", {<<1, 3, 0>>})}

ContractRegistries ==
  [safeL1 : {<<Deployment(<<1, 1, 1>>, "GnosisSafe", Chains)>>, FullTable("GnosisSafe")},
   safeL2 : {<<Deployment(LATEST_SAFE_VERSION, "GnosisSafeL2", {"100"})>>},
   proxyFactory : ContractTables("ProxyFactory"),
   fallbackHandler : {<<Deployment(<<1, 1, 1>>, "CompatibilityFallbackHandler", Chains)>>,
                      <<Deployment(LATEST_SAFE_VERSION, "CompatibilityFallbackHandler", {"1"})>>},
   multiSend : {<<Deployment(LATEST_SAFE_VERSION, "MultiSendCallOnly", {"1"})>>,
                <<Deployment(LATEST_SAFE_VERSION, "MultiSendCallOnly", {"100", HARMONY})>>,
                <<EmptyAddressDeployment(LATEST_SAFE_VERSION, "MultiSendCallOnly")>>},
   signMessageLib : {<<Deployment(LATEST_SAFE_VERSION, "SignMessageLib", {"1"})>>,
                     <<Deployment(LATEST_SAFE_VERSION, "SignMessageLib", {"100", HARMONY})>>,
                     <<EmptyAddressDeployment(LATEST_SAFE_VERSION, "SignMessageLib")>>}]

\* the stores of the token selectors
BalanceEntries ==
  {Balance(a, "1") : a \in {NATIVE_ADDRESS, "0xa1", Undefined}}
TokenLists ==
  {[a \in {"0xa1"} |-> Token(a, "listed", Balance(Undefined, "0"))],
   [a \in {"0xa1", NATIVE_ADDRESS} |-> Token(a, "listed", Balance(Undefined, "0"))]}
TokenSafes == {NoSafe, Safe({}, "5")}
BalanceValues == {ArrayOf(b) : b \in SeqsUpTo(BalanceEntries, MaxBalances)} \cup NonArrayBalances

\* the stores of grantedSelector
Accounts == {"0xa1", "0xb2"}
WalletAddresses == {"0xA1", "0xb2", ""}
GrantedSafes == {NoSafe} \cup {Safe(owners, "5") : owners \in SUBSET Accounts}

DefaultStore ==
  [safe |-> NoSafe, balances |-> ArrayOf(<<>>),
   tokens |-> [a \in {"0xa1"} |-> Token(a, "listed", Balance(Undefined, "0"))],
   wrongChain |-> FALSE]

RootLocation == [pathname |-> <<"/">>, search |-> "", hash |-> ""]
NoDataLayer == [event |-> "none", chainId |-> Undefined, page |-> <<>>]

InitContracts ==
  /\ proxyFactoryMaster = UnsetInstance
  /\ safeMaster = UnsetInstance
  /\ fallbackHandler = UnsetInstance
  /\ multiSend = UnsetInstance
  /\ promises = [i \in 1..MaxCalls |-> NoPromise]

InitSelectors ==
  /\ onboard = [account |-> [address |-> ""]]
  /\ grantedMemo = EmptyGrantedMemo
  /\ extendedMemo = EmptyExtendedMemo

InitRest ==
  /\ location = RootLocation
  /\ dataLayer = NoDataLayer
  /\ ret = NoCall

InitDeployment ==
  /\ registry \in DeploymentRegistries
  /\ chainId = "1"
  /\ store = DefaultStore
  /\ InitContracts /\ InitSelectors /\ InitRest

NextDeployment ==
  \/ \E c \in Chains : SwitchChain(c)
  \/ \E v \in SafeVersions : GetSafeContractDeployment(v)
  \/ \E a \in ProxyAddresses, v \in SafeVersions : GetGnosisSafeInstanceAt(a, v)

SpecDeployment == InitDeployment /\ [][NextDeployment]_vars

InitInstances ==
  /\ registry \in ContractRegistries
  /\ chainId = "1"
  /\ store = DefaultStore
  /\ InitContracts /\ InitSelectors /\ InitRest

NextInstances ==
  \/ \E c \in Chains : SwitchChain(c)
  \/ InstantiateSafeContracts
  \/ GetSafeMasterContract
  \/ GetSafeMasterContractAddress
  \/ GetFallbackHandlerContractAddress
  \/ GetMultisendContract
  \/ GetMultisendContractAddress
  \/ GetSafeDeploymentTransaction
  \/ \E c \in Chains : GetSignMessageLibAddress(c)
  \/ \E c \in Chains : GetSignMessageLibContractInstance(c)

SpecInstances == InitInstances /\ [][NextInstances]_vars

InitMasterCopy ==
  /\ registry = DefaultRegistry
  /\ chainId = "1"
  /\ store = DefaultStore
  /\ InitContracts /\ InitSelectors /\ InitRest

NextMasterCopy ==
  \/ \E i \in 1..MaxCalls, a \in ProxyAddresses : CallGetMasterCopyAddress(i, a)
  \/ \E i \in 1..MaxCalls, o \in SafeInfoOutcomes : SettleGetSafeInfo(i, o)

SpecMasterCopy == InitMasterCopy /\ [][NextMasterCopy]_vars

InitTokens ==
  /\ registry = DefaultRegistry
  /\ chainId = "1"
  /\ store \in [safe : TokenSafes, balances : BalanceValues, tokens : TokenLists,
                wrongChain : {FALSE}]
  /\ InitContracts /\ InitSelectors /\ InitRest

NextTokens ==
  \/ \E safe \in TokenSafes : SetSafe(safe)
  \/ \E b \in BalanceValues : SetBalances(b)
  \/ \E t \in TokenLists : SetTokens(t)
  \/ \E w \in BOOLEAN : SetWrongChain(w)
  \/ CallExtendedSafeTokensSelector

SpecTokens == InitTokens /\ [][NextTokens]_vars

InitGranted ==
  /\ registry = DefaultRegistry
  /\ chainId = "1"
  /\ store \in {[DefaultStore EXCEPT !.safe = safe] : safe \in GrantedSafes}
  /\ InitContracts /\ InitSelectors /\ InitRest

NextGranted ==
  \/ \E safe \in GrantedSafes : SetSafe(safe)
  \/ \E w \in BOOLEAN : SetWrongChain(w)
  \/ \E a \in WalletAddresses : WalletChange(a)
  \/ CallGrantedSelector

SpecGranted == InitGranted /\ [][NextGranted]_vars

InitTracking ==
  /\ registry = DefaultRegistry
  /\ chainId = "1"
  /\ store = DefaultStore
  /\ InitContracts /\ InitSelectors /\ InitRest

NextTracking ==
  \/ \E c \in Chains : SwitchChain(c)
  \/ \E loc \in Locations : HistoryListen(loc)

SpecTracking == InitTracking /\ [][NextTracking]_vars

(***************************************************************************)
(* Properties                                                              *)
(***************************************************************************)

\* C1: getSafeContractDeployment returns the entry found with (version,
\* network = chain id) when there is one; else the entry found with the
\* version alone when there is one; else, only for a version < 1.0.0, the
\* entry of version 1.0.0; else no deployment. An earlier tier wins.
C1_TieredResolution ==
  ret.op = "getSafeContractDeployment" =>
    LET safeVersion == ret.arg
        table == registry[ret.value.lookups[1].table]
        byNetwork == findDeployment(table, safeVersion, chainId)
        byVersion == findDeployment(table, safeVersion, Undefined)
        legacy == findDeployment(table, <<1, 0, 0>>, Undefined)
    IN ret.value.deployment =
         IF byNetwork # NoDeployment THEN byNetwork
         ELSE IF byVersion # NoDeployment THEN byVersion
         ELSE IF SemverLt(safeVersion, <<1, 0, 0>>) THEN legacy
         ELSE NoDeployment

\* a call for a version before 1.0.0 that was answered with the 1.0.0 entry
C1_Witness ==
  /\ ret.op = "getSafeContractDeployment"
  /\ ret.arg = <<0, 1, 0>>
  /\ ret.value.deployment.version = <<1, 0, 0>>

\* the address the builders are to give an instance: the deployment's
\* address on the chain when it has one, the literal otherwise
AddressOrLiteral(deployment, chain, literal) ==
  IF Falsy(deployment.networkAddresses[chain]) THEN literal
  ELSE deployment.networkAddresses[chain]

LatestOf(table, chain) ==
  OrElse(findDeployment(table, LATEST_SAFE_VERSION, chain),
         findDeployment(table, LATEST_SAFE_VERSION, Undefined))

\* C2: none of the four builders run by instantiateSafeContracts fails for a
\* missing deployment: each instance's address is the resolved deployment's
\* networkAddresses[chainId] when that is present and non-empty, and the
\* contract's literal fallback address otherwise, also when no deployment
\* was resolved at all.
C2_BuildersNeverFail ==
  ret.op = "instantiateSafeContracts" =>
    LET chain == ret.arg
        ran == ret.value
        safeDeployment == getSafeContractDeployment(registry, chain, LATEST_SAFE_VERSION).deployment
        multiSendDeployment ==
          OrElse(findDeployment(registry.multiSend, NoVersion, chain),
                 findDeployment(registry.multiSend, NoVersion, Undefined))
    IN /\ Len(ran) = 4
       /\ \A i \in 1..4 : ~ran[i].threw
       /\ ran[1].instance.address =
            AddressOrLiteral(LatestOf(registry.proxyFactory, chain), chain, PROXY_FACTORY_FALLBACK)
       /\ ran[2].instance.address = AddressOrLiteral(safeDeployment, chain, GNOSIS_SAFE_FALLBACK)
       /\ ran[3].instance.address =
            AddressOrLiteral(LatestOf(registry.fallbackHandler, chain), chain,
                             FALLBACK_HANDLER_FALLBACK)
       /\ ran[4].instance.address = AddressOrLiteral(multiSendDeployment, chain, MULTI_SEND_FALLBACK)

\* the positions of the balance entries that have a token: the native
\* currency's (by sameAddress) or one of the tokens list (by key)
MatchingBalances(state) ==
  LET entries == state.balances.entries
      eth == safeEthAsTokenSelector(state)
  IN {i \in 1..Len(entries) :
        /\ ~Falsy(entries[i].tokenAddress)
        /\ \/ sameAddress(entries[i].tokenAddress, eth.address)
           \/ entries[i].tokenAddress \in DOMAIN state.tokens}

MatchedToken(state, i) ==
  LET tokenAddress == state.balances.entries[i].tokenAddress
      eth == safeEthAsTokenSelector(state)
  IN IF sameAddress(tokenAddress, eth.address) THEN eth ELSE state.tokens[tokenAddress]

\* C3: for an array of balances, extendedSafeTokensSelector returns, in the
\* order of the balances, exactly one record per entry whose tokenAddress is
\* the native currency's address or a key of the tokens list: the matched
\* token with its balance set to the entry. Other entries add nothing, so
\* the result is never longer than the balances.
C3_OneTokenPerMatchingBalance ==
  (ret.op = "extendedSafeTokensSelector" /\ IsArray(store.balances)) =>
    LET entries == store.balances.entries
        matching == MatchingBalances(store)
        Position(i) == Cardinality({j \in matching : j <= i})
    IN /\ ~ret.threw
       /\ Len(ret.value) = Cardinality(matching)
       /\ Len(ret.value) <= Len(entries)
       /\ \A i \in matching :
            ret.value[Position(i)] = [MatchedToken(store, i) EXCEPT !.balance = entries[i]]

\* a call on two balance entries of which the first has no token and the
\* second has one
C3_Witness ==
  /\ ret.op = "extendedSafeTokensSelector"
  /\ IsArray(store.balances)
  /\ Len(store.balances.entries) = 2
  /\ MatchingBalances(store) = {2}
  /\ Len(ret.value) = 1

\* C4 as stated: with balances that are no array, every call of
\* extendedSafeTokensSelector returns an empty list and sends one message
\* to Sentry; with an array it sends none.
C4_EveryCallReports ==
  ret.op = "extendedSafeTokensSelector" =>
    IF IsArray(store.balances) THEN ret.sent = 0
    ELSE ret.value = <<>> /\ ret.sent = 1

\* C4, amended: with balances that are no array, the selector returns an
\* empty list, and sends one message to Sentry when its result function
\* runs and none when reselect answers from its cache; with an array it
\* sends none.
C4_ReportsWhenComputed ==
  ret.op = "extendedSafeTokensSelector" =>
    IF IsArray(store.balances) THEN ret.sent = 0
    ELSE ret.value = <<>> /\ ret.sent = (IF ret.cached THEN 0 ELSE 1)

\* a computed call on balances that are no array, which sent its message
C4_Witness ==
  /\ ret.op = "extendedSafeTokensSelector"
  /\ ~IsArray(store.balances)
  /\ ~ret.cached
  /\ ret.sent = 1

\* C5: getMasterCopyAddressFromProxyAddress swallows every failure: the
\* promise it returns is never rejected, it resolves to undefined when
\* getSafeInfo failed, and to the fallback master copy when getSafeInfo gave
\* an empty implementation value.
C5_NeverRejects ==
  \A i \in DOMAIN promises : promises[i].state # "rejected"

\* C6: getSignMessageLibAddress and getSignMessageLibContractInstance
\* resolve the same address: the override for chain 1666600000, else the
\* deployment's networkAddresses[chainId]; both throw an Error exactly when
\* that address is missing, and getSignMessageLibAddress never returns
\* undefined.
C6_SignMessageLibResolution ==
  ret.op \in {"getSignMessageLibAddress", "getSignMessageLibContractInstance"} =>
    LET chain == ret.arg
        deployment == OrElse(findDeployment(registry.signMessageLib, NoVersion, chain),
                             findDeployment(registry.signMessageLib, NoVersion, Undefined))
        resolved == IF chain = HARMONY THEN SIGN_MESSAGE_LIB_HARMONY
                    ELSE deployment.networkAddresses[chain]
    IN IF Falsy(resolved) THEN ret.threw /\ ret.value = "Error"
       ELSE /\ ~ret.threw
            /\ resolved # Undefined
            /\ IF ret.op = "getSignMessageLibAddress" THEN ret.value = resolved
               ELSE ret.value.address = resolved

\* a call for a chain on which the deployment has no address, which threw
C6_Witness ==
  /\ ret.op = "getSignMessageLibAddress"
  /\ ret.arg # HARMONY
  /\ ret.threw

\* whether token occurs in str
Contains(str, token) == \E i \in 1..Len(str) : str[i] = token

\* two locations that differ at most in the safe address and, on the
\* single-transaction route, the transaction id
SameButParameters(a, b) ==
  /\ a.search = b.search /\ a.hash = b.hash
  /\ NumSegments(a.pathname) = NumSegments(b.pathname)
  /\ matchAddressedRoute(a.pathname) # Undefined
  /\ matchAddressedRoute(b.pathname) # Undefined
  /\ \A k \in 2..NumSegments(a.pathname) :
       \/ Segment(a.pathname, k) = Segment(b.pathname, k)
       \/ k = 3 /\ matchTransactionsSingular(a.pathname) # Undefined
                /\ matchTransactionsSingular(b.pathname) # Undefined

\* C7: for a location that matches the addressed route, the pathname part
\* of getAnonymizedLocation's result holds no occurrence of the matched safe
\* address nor, on the single-transaction route, of the matched transaction
\* id; two locations that differ only in these parameters give one result;
\* search and hash follow unchanged.
C7_ParametersAnonymized ==
  (ret.op = "getAnonymizedLocation" /\ matchAddressedRoute(ret.arg.pathname) # Undefined) =>
    LET loc == ret.arg
        page == ret.value
        tail == Str(loc.search) \o Str(loc.hash)
        pathPart == SubSeq(page, 1, Len(page) - Len(tail))
        txId == matchTransactionsSingular(loc.pathname)
    IN /\ SubSeq(page, Len(page) - Len(tail) + 1, Len(page)) = tail
       /\ ~Contains(pathPart, matchAddressedRoute(loc.pathname))
       /\ txId # Undefined => ~Contains(pathPart, txId)
       /\ \A other \in Locations :
            SameButParameters(loc, other) => getAnonymizedLocation(other) = page

\* C8: whatever store changes and wallet account changes came before,
\* grantedSelector returns isUserAnOwner(current safe, current account
\* address) and not shouldSwitchWalletChain, on the values of the time of
\* the call.
C8_GrantedIsCurrent ==
  ret.op = "grantedSelector" =>
    ret.value = (isUserAnOwner(store.safe, onboard.account.address) /\ ~store.wrongChain)

\* C9: every lookup of one getSafeContractDeployment call reads the L2
\* table when the current chain is L2 and the version is >= 1.3.0, and the
\* L1 table otherwise.
C9_OneTablePerCall ==
  ret.op = "getSafeContractDeployment" =>
    LET expected == IF ChainIsL2(chainId) /\ ~SemverLt(ret.arg, <<1, 3, 0>>)
                    THEN "safeL2" ELSE "safeL1"
    IN \A i \in DOMAIN ret.value.lookups : ret.value.lookups[i].table = expected

\* a call on an L2 chain that went through all three tiers
C9_Witness ==
  /\ ret.op = "getSafeContractDeployment"
  /\ ChainIsL2(chainId)
  /\ Len(ret.value.lookups) = 3

\* C10: the four module-level instances are all unset, or all resolved for
\* one chain id; the address getters answer only once the instances are set.
C10_AllUnsetOrOneChain ==
  LET instances == {proxyFactoryMaster, safeMaster, fallbackHandler, multiSend}
  IN /\ \/ instances = {UnsetInstance}
        \/ \E c \in Chains : \A x \in instances : x # UnsetInstance /\ x.resolvedFor = c
     /\ (/\ ret.op \in {"getSafeMasterContractAddress", "getFallbackHandlerContractAddress",
                        "getMultisendContractAddress", "getSafeDeploymentTransaction"}
         /\ ~ret.threw) => UnsetInstance \notin instances

====
